---- MODULE Spec2Model ----
(***************************************************************************)
(* Model of altena-core: the occupancy quadtree of frame.rs (MeshLeaf,     *)
(* MeshNode, MeshTree): construction from a pixel buffer and the collision *)
(* query between two trees placed at world offsets; the sprite Frame built *)
(* from a buffer and read back as an image; the Scheduler of schedule.rs;  *)
(* the button bookkeeping of the InputHandler of input.rs.                 *)
(***************************************************************************)
EXTENDS Integers, Sequences, FiniteSets, TLC

VARIABLES bufA, bufB, meshA, meshB, query,   \* two sprites' buffers and trees, the last query
          frame, img,                         \* the Frame built from bufA, and get_img_buf of it
          heap, clock, pushes, pops,          \* Scheduler.inner, the game clock, and the calls made
          handler, upd_count, message, events \* InputHandler, AltenaCore.upd_count, the last
                                              \* InputMessage, and the calls made

meshVars == <<bufA, bufB, meshA, meshB, query>>
frameVars == <<frame, img>>
schedVars == <<heap, clock, pushes, pops>>
inputVars == <<handler, upd_count, message, events>>
vars == <<meshVars, frameVars, schedVars, inputVars>>

(***************************************************************************)
(* Bounds of the model.                                                    *)
(***************************************************************************)
\* at most this many listed (non-zero alpha) pixels per image
MaxPix == 2
\* second sprite is placed within this distance of a pixel coincidence
MaxOff == 1
\* translation vectors are steps of 1 pixel and of 1..MaxShift tiles
MaxShift == 1
\* the scheduler is popped for the clock values 0..MaxClock - 1
MaxClock == 9
\* schedules start at 0..MaxStart and are pushed while the clock is at most MaxStart
MaxStart == 2
\* spans and periods of schedules are 1..MaxSpan
MaxSpan == 3
\* input events arrive at the clock values 0..MaxUpd
MaxUpd == 3
\* at most this many calls of the InputHandler are made
MaxEvents == 5

(***************************************************************************)
(* Program constants.                                                      *)
(***************************************************************************)
TILE_SIZE == 16
U16_MAX == 65535

Min(a, b) == IF a < b THEN a ELSE b
Max(a, b) == IF a > b THEN a ELSE b

RECURSIVE Pow2(_)
Pow2(n) == IF n <= 0 THEN 1 ELSE 2 * Pow2(n - 1)

\* let-binding that evaluates v once: Op applied to the value of v
Bind(v, Op(_)) == CHOOSE r \in {Op(x) : x \in {v}} : TRUE

\* Option::None, and the abort of a panic!/unwrap
None == [kind |-> "None"]
Panic == [kind |-> "Panic"]
Unbuilt == [kind |-> "Unbuilt"]

IsTree(t) == t.kind \in {"Leaf", "Node"}

(***************************************************************************)
(* u16 arithmetic of the row masks.                                        *)
(***************************************************************************)
\* u16 << n : bits shifted out at the top are lost
Shl16(b, n) == (b * Pow2(n)) % (U16_MAX + 1)

\* bit of column x in a row mask: MAGIC >> x, MAGIC = 1 << 15
ColBit(x) == Pow2(TILE_SIZE - 1 - x)

HasCol(row, x) == (row \div ColBit(x)) % 2 = 1

RECURSIVE BitAnd(_, _)
BitAnd(a, b) ==
    IF a = 0 \/ b = 0 THEN 0
    ELSE Bind(a \div 2, LAMBDA a2 : Bind(b \div 2, LAMBDA b2 :
             (IF a % 2 = 1 /\ b % 2 = 1 THEN 1 ELSE 0) + 2 * BitAnd(a2, b2)))

(***************************************************************************)
(* euclid rectangles (origin + size) and vectors <<x, y>>.                 *)
(***************************************************************************)
Rect(x, y, w, h) == [x |-> x, y |-> y, w |-> w, h |-> h]

VAdd(p, q) == <<p[1] + q[1], p[2] + q[2]>>
VSub(p, q) == <<p[1] - q[1], p[2] - q[2]>>
VNeg(p) == <<0 - p[1], 0 - p[2]>>
VMul(p, k) == <<p[1] * k, p[2] * k>>

slide_rect(r, off) == Rect(r.x + off[1], r.y + off[2], r.w, r.h)

\* TypedRect::intersects: strict on every edge, touching rectangles do not intersect
RectIntersects(a, b) ==
    /\ a.x < b.x + b.w
    /\ b.x < a.x + a.w
    /\ a.y < b.y + b.h
    /\ b.y < a.y + a.h

\* an intersection that keeps the second rectangle whole
RectIntersectionSecond(a, b) == b

\* TypedRect::intersection
RectIntersection(a, b) ==
    IF ~RectIntersects(a, b) THEN None
    ELSE LET ulx == Max(a.x, b.x)
             uly == Max(a.y, b.y)
             lrx == Min(a.x + a.w, b.x + b.w)
             lry == Min(a.y + a.h, b.y + b.h)
         IN  Rect(ulx, uly, lrx - ulx, lry - uly)

\* a union that keeps only the rectangle added last
RectUnionLast(a, b) == b

\* TypedRect::union: a zero-sized rectangle is the neutral element
RectUnion(a, b) ==
    IF a.w = 0 /\ a.h = 0 THEN b
    ELSE IF b.w = 0 /\ b.h = 0 THEN a
    ELSE LET ulx == Min(a.x, b.x)
             uly == Min(a.y, b.y)
             lrx == Max(a.x + a.w, b.x + b.w)
             lry == Max(a.y + a.h, b.y + b.h)
         IN  Rect(ulx, uly, lrx - ulx, lry - uly)

(***************************************************************************)
(* rect_iter ranges: x in xs..xe-1, y in ys..ye-1; an empty range is None. *)
(***************************************************************************)
RectRange(xs, ys, xe, ye) ==
    IF xs < xe /\ ys < ye THEN [kind |-> "Range", xs |-> xs, ys |-> ys, xe |-> xe, ye |-> ye]
    ELSE None

RangeIntersection(a, b) ==
    RectRange(Max(a.xs, b.xs), Max(a.ys, b.ys), Min(a.xe, b.xe), Min(a.ye, b.ye))

xlen(r) == r.xe - r.xs
ylen(r) == r.ye - r.ys

bbox_intersects(bbox_1, bbox_2, offset_1, offset_2) ==
    RectIntersects(slide_rect(bbox_1, offset_1), slide_rect(bbox_2, offset_2))

\* an intersection that moves both boxes by the first offset
bbox_intersection_one_offset(bbox_1, bbox_2, offset_1, offset_2) ==
    RectIntersection(slide_rect(bbox_1, offset_1), slide_rect(bbox_2, offset_1))

bbox_intersection(bbox_1, bbox_2, offset_1, offset_2) ==
    RectIntersection(slide_rect(bbox_1, offset_1), slide_rect(bbox_2, offset_2))

\* a tile range that does not move rect back by offset
get_tile_range_unmoved(rect, offset) ==
    LET inter == RectIntersection(Rect(0, 0, TILE_SIZE, TILE_SIZE), rect)
    IN  IF inter = None THEN None
        ELSE RectRange(inter.x, inter.y, inter.x + inter.w, inter.y + inter.h)

\* intersection of the tile (0,0,16,16) with rect moved back by offset, as a range
get_tile_range(rect, offset) ==
    LET inter == RectIntersection(Rect(0, 0, TILE_SIZE, TILE_SIZE),
                                  slide_rect(rect, VNeg(offset)))
    IN  IF inter = None THEN None
        ELSE RectRange(inter.x, inter.y, inter.x + inter.w, inter.y + inter.h)

(***************************************************************************)
(* TileDir, in the order of TileDir::variants().                           *)
(***************************************************************************)
TileDirs == <<"LeftUp", "RightUp", "RightDown", "LeftDown">>

to_vec(dir) ==
    CASE dir = "LeftUp" -> <<0, 0>>
      [] dir = "RightUp" -> <<1, 0>>
      [] dir = "RightDown" -> <<1, 1>>
      [] dir = "LeftDown" -> <<0, 1>>

(***************************************************************************)
(* Pixel buffers: width, height and the alpha byte of the listed pixels;   *)
(* every pixel that is not listed has alpha byte 0.                        *)
(***************************************************************************)
Image(w, h, px) == [w |-> w, h |-> h, px |-> px]

get_pixel(buf, x, y) == IF <<x, y>> \in DOMAIN buf.px THEN buf.px[<<x, y>>] ELSE 0

\* frame.rs is_trans: the whole alpha byte is zero
is_trans(alpha) == alpha = 0

(***************************************************************************)
(* MeshLeaf::from_buf: the 16x16 positions of tile_rect(), row by row, are *)
(* zipped with the pixels of the region, row by row.                       *)
(***************************************************************************)
\* number of pairs the zip yields
ZipLen(range) == Min(TILE_SIZE * TILE_SIZE, xlen(range) * ylen(range))

\* k-th element of tile_rect().into_iter()
TilePos(k) == <<k % TILE_SIZE, k \div TILE_SIZE>>

\* k-th element of range.into_iter()
BufPos(range, k) == <<range.xs + (k % xlen(range)), range.ys + (k \div xlen(range))>>

\* the zip positions whose pixel passes !is_trans(p)
LeafHits(buf, range) ==
    {k \in 0..(ZipLen(range) - 1) :
        ~is_trans(get_pixel(buf, BufPos(range, k)[1], BufPos(range, k)[2]))}

RECURSIVE RowMask(_, _, _)
\* array[y] after the fold: MAGIC >> x or-ed in for every hit (x, y)
RowMask(hits, y, x) ==
    IF x >= TILE_SIZE THEN 0
    ELSE (IF (y * TILE_SIZE + x) \in hits THEN ColBit(x) ELSE 0) + RowMask(hits, y, x + 1)

SetMin(S, start) == IF S = {} THEN start ELSE Min(start, CHOOSE m \in S : \A n \in S : m <= n)
SetMax(S, start) == IF S = {} THEN start ELSE Max(start, CHOOSE m \in S : \A n \in S : m >= n)

Leaf(inner, bbox) == [kind |-> "Leaf", inner |-> inner, bbox |-> bbox]

LeafFromBuf(buf, range) ==
    LET hits == LeafHits(buf, range)
        xs == {TilePos(k)[1] : k \in hits}
        ys == {TilePos(k)[2] : k \in hits}
        min_x == SetMin(xs, TILE_SIZE)
        min_y == SetMin(ys, TILE_SIZE)
        max_x == SetMax(xs, 0)
        max_y == SetMax(ys, 0)
        corners == RectRange(min_x, min_y, max_x + 1, max_y + 1)
    IN  IF corners = None THEN None
        ELSE Leaf([i \in 1..TILE_SIZE |-> RowMask(hits, i - 1, 0)],
                  Rect(corners.xs, corners.ys, xlen(corners), ylen(corners)))

(***************************************************************************)
(* MeshTree::from_buf_ and MeshTree::from_buf.                             *)
(***************************************************************************)
Node(inner, bbox, scale) == [kind |-> "Node", inner |-> inner, bbox |-> bbox, scale |-> scale]

RECURSIVE ScaleLoop(_, _, _)
ScaleLoop(max_len, len, scale) ==
    IF scale >= 6 THEN 0
    ELSE IF max_len <= len THEN scale
    ELSE ScaleLoop(max_len, len * 2, scale + 1)

\* get_scale with one more turn of the loop (for scale in 1..7)
get_scale_one_more(max_len) ==
    IF max_len > 16 * TILE_SIZE /\ max_len <= 32 * TILE_SIZE THEN 6
    ELSE ScaleLoop(max_len, TILE_SIZE, 1)

\* the closure get_scale: the loop counter 1..5 at which len reaches max_len, 0 for the panic!
get_scale(max_len) == ScaleLoop(max_len, TILE_SIZE, 1)

\* left_up of the quadrant dir, in pixels
QuadLeftUp(dir, child_scale) == VMul(to_vec(dir), child_scale * TILE_SIZE)

\* divided: the quadrant from left_up to left_up + (1,1) * child_scale * TILE_SIZE
QuadRange(dir, child_scale) ==
    LET left_up == QuadLeftUp(dir, child_scale)
        right_down == VAdd(left_up, VMul(<<1, 1>>, child_scale * TILE_SIZE))
    IN  RectRange(left_up[1], left_up[2], right_down[1], right_down[2])

RECURSIVE FoldBboxUnmoved(_, _, _)
\* a fold that unites the children's boxes where they stand in their own quadrant
FoldBboxUnmoved(kids, i, acc) ==
    IF i > Len(kids) THEN acc
    ELSE FoldBboxUnmoved(kids, i + 1, IF acc = None THEN kids[i].tree.bbox
                                      ELSE RectUnion(acc, kids[i].tree.bbox))

RECURSIVE FoldBbox(_, _, _)
\* bbox_res after the children i..Len have been seen
FoldBbox(kids, i, acc) ==
    IF i > Len(kids) THEN acc
    ELSE LET bbox == slide_rect(kids[i].tree.bbox,
                                QuadLeftUp(kids[i].dir, kids[i].child_scale))
         IN  FoldBbox(kids, i + 1, IF acc = None THEN bbox ELSE RectUnion(acc, bbox))

RECURSIVE from_buf_(_, _)
from_buf_(buf, range_orig) ==
    LET scale == get_scale(Max(xlen(range_orig), ylen(range_orig)))
        child_scale == scale \div 2
        Quadrant(dir) ==
            LET inter == RangeIntersection(range_orig, QuadRange(dir, child_scale))
            IN  IF inter = None THEN None ELSE from_buf_(buf, inter)
        all == [i \in 1..4 |->
                   [tree |-> Quadrant(TileDirs[i]), dir |-> TileDirs[i],
                    child_scale |-> child_scale]]
        kept == SelectSeq(all, LAMBDA c : c.tree # None)
        children == [i \in 1..Len(kept) |-> [tree |-> kept[i].tree, dir |-> kept[i].dir]]
        bbox_res == FoldBbox(kept, 1, None)
    IN  IF scale = 0 THEN Panic
        ELSE IF scale = 1 THEN LeafFromBuf(buf, range_orig)
        ELSE IF bbox_res = None THEN None
        ELSE Node(children, bbox_res, scale)

\* RectRange::zero_start(w, h).unwrap() aborts on an empty buffer
from_buf(buf) ==
    LET range == RectRange(0, 0, buf.w, buf.h)
    IN  IF range = None THEN Panic ELSE from_buf_(buf, range)

(***************************************************************************)
(* Collision queries.  Every operator returns res, the Option<DotRect> of  *)
(* the code, and scans, the leaf pairs whose row masks were read, in the   *)
(* order they were read: s and o are the two leaves' bounding boxes moved  *)
(* by the offsets of the call, rows the number of row pairs read, range_s   *)
(* and range_o the two tile ranges of the scan.                            *)
(***************************************************************************)
Outcome(res, scans) == [res |-> res, scans |-> scans]

\* a mask that keeps the leading columns of the row where it stands
line_mask_unshifted(range, b) ==
    LET len == range.xe - range.xs
        mask == Shl16(U16_MAX, TILE_SIZE - len)
    IN  Bind(b, LAMBDA row : Bind(mask, LAMBDA m : BitAnd(row, m)))

\* the closure line_mask applied to the row b
line_mask(range, b) ==
    LET len == range.xe - range.xs
        mask == Shl16(U16_MAX, TILE_SIZE - len)
        shift == range.xs
    IN  Bind(Shl16(b, shift), LAMBDA shifted : Bind(mask, LAMBDA m : BitAnd(shifted, m)))

\* the predicate of find for the i-th pair of the zipped row ranges
RowHit(self, other, range_s, range_o, i) ==
    LET y_s == range_s.ys + i
        y_o == range_o.ys + i
        masked_s == line_mask(range_s, self.inner[y_s + 1])
        masked_o == line_mask(range_o, other.inner[y_o + 1])
    IN  Bind(masked_s, LAMBDA m_s : Bind(masked_o, LAMBDA m_o : BitAnd(m_s, m_o))) # 0

\* what the row scan needs of a tile range so as not to abort: every row it
\* names indexes the array [u16; TILE_SIZE], the shift range.start and the
\* shift TILE_SIZE - len of the mask are shifts of a u16 (an index out of
\* bounds aborts in every build, a shift out of bounds in a debug build)
ScanInBounds(range) ==
    /\ 0 <= range.ys /\ range.ye <= TILE_SIZE
    /\ 0 <= range.xs /\ range.xs < TILE_SIZE
    /\ range.xe - range.xs >= 1 /\ range.xe - range.xs <= TILE_SIZE

collide_l(self, other, offset_s, offset_o) ==
    Bind(bbox_intersection(self.bbox, other.bbox, offset_s, offset_o), LAMBDA intersect :
      IF intersect = None THEN Outcome(None, <<>>)
      ELSE
        Bind(get_tile_range(intersect, offset_s), LAMBDA range_s :
        Bind(get_tile_range(intersect, offset_o), LAMBDA range_o :
          IF range_s = None \/ range_o = None THEN Outcome(None, <<>>)
          ELSE IF ~ScanInBounds(range_s) \/ ~ScanInBounds(range_o)
          THEN Outcome(Panic, <<[s |-> slide_rect(self.bbox, offset_s),
                                 o |-> slide_rect(other.bbox, offset_o),
                                 rows |-> 0, range_s |-> range_s, range_o |-> range_o]>>)
          ELSE
            Bind(Min(ylen(range_s), ylen(range_o)), LAMBDA n :
            Bind({i \in 0..(n - 1) : RowHit(self, other, range_s, range_o, i)}, LAMBDA hits :
              Outcome(IF hits = {} THEN None ELSE intersect,
                      <<[s |-> slide_rect(self.bbox, offset_s),
                         o |-> slide_rect(other.bbox, offset_o),
                         rows |-> IF hits = {} THEN n ELSE SetMin(hits, n) + 1,
                         range_s |-> range_s, range_o |-> range_o]>>))))))

\* compensate of collide_n
compensate_n(other, dir) == VMul(VMul(to_vec(dir), other.scale), TILE_SIZE \div 2)

RECURSIVE collide_n(_, _, _, _)
RECURSIVE collide_n_from(_, _, _, _, _)
RECURSIVE collide_n_last_hit(_, _, _, _, _)
\* a filter_map that is run to its end and yields the last Some
collide_n_last_hit(self, other, offset_s, offset_o, i) ==
    IF i > Len(other.inner) THEN Outcome(None, <<>>)
    ELSE LET child == other.inner[i].tree
             offset_c == VAdd(offset_o, compensate_n(other, other.inner[i].dir))
             this == IF ~bbox_intersects(self.bbox, child.bbox, offset_s, offset_c)
                         THEN Outcome(None, <<>>)
                     ELSE IF child.kind = "Leaf"
                         THEN collide_l(self, child, offset_s, offset_c)
                     ELSE collide_n(self, child, offset_s, offset_c)
             rest == collide_n_last_hit(self, other, offset_s, offset_o, i + 1)
         IN  Bind(this, LAMBDA t : Bind(rest, LAMBDA r :
                 Outcome(IF r.res # None THEN r.res ELSE t.res, t.scans \o r.scans)))

\* the filter_map of collide_n over the children i.. of other, up to the first Some
collide_n_from(self, other, offset_s, offset_o, i) ==
    IF i > Len(other.inner) THEN Outcome(None, <<>>)
    ELSE LET child == other.inner[i].tree
             offset_c == VAdd(offset_o, compensate_n(other, other.inner[i].dir))
             this == IF ~bbox_intersects(self.bbox, child.bbox, offset_s, offset_c)
                         THEN Outcome(None, <<>>)
                     ELSE IF child.kind = "Leaf"
                         THEN collide_l(self, child, offset_s, offset_c)
                     ELSE collide_n(self, child, offset_s, offset_c)
             rest == collide_n_from(self, other, offset_s, offset_o, i + 1)
         IN  Bind(this, LAMBDA t : IF t.res # None THEN t
                                   ELSE Bind(rest, LAMBDA r : Outcome(r.res, t.scans \o r.scans)))

collide_n(self, other, offset_s, offset_o) ==
    IF ~bbox_intersects(self.bbox, other.bbox, offset_s, offset_o) THEN Outcome(None, <<>>)
    ELSE collide_n_from(self, other, offset_s, offset_o, 1)

\* compensate of MeshNode::collide
compensate(self, dir) == VMul(VMul(to_vec(dir), self.scale), TILE_SIZE)

RECURSIVE node_collide(_, _, _, _)
RECURSIVE node_collide_from(_, _, _, _, _)
\* the filter_map of MeshNode::collide over the children i.. of self, up to the first Some
node_collide_from(self, other, offset_s, offset_o, i) ==
    IF i > Len(self.inner) THEN Outcome(None, <<>>)
    ELSE LET child_s == self.inner[i].tree
             offset_c == VAdd(offset_s, compensate(self, self.inner[i].dir))
             this == IF ~bbox_intersects(child_s.bbox, other.bbox, offset_c, offset_o)
                         THEN Outcome(None, <<>>)
                     ELSE IF child_s.kind = "Leaf"
                         THEN collide_n(child_s, other, offset_c, offset_o)
                     ELSE node_collide(child_s, other, offset_c, offset_o)
             rest == node_collide_from(self, other, offset_s, offset_o, i + 1)
         IN  Bind(this, LAMBDA t : IF t.res # None THEN t
                                   ELSE Bind(rest, LAMBDA r : Outcome(r.res, t.scans \o r.scans)))

\* MeshNode::collide
node_collide(self, other, offset_s, offset_o) ==
    IF ~bbox_intersects(self.bbox, other.bbox, offset_s, offset_o) THEN Outcome(None, <<>>)
    ELSE node_collide_from(self, other, offset_s, offset_o, 1)

\* MeshTree::collide
collide(self, other, offset_s, offset_o) ==
    IF self.kind = "Leaf"
    THEN IF other.kind = "Leaf" THEN collide_l(self, other, offset_s, offset_o)
         ELSE collide_n(self, other, offset_s, offset_o)
    ELSE IF other.kind = "Leaf" THEN collide_n(other, self, offset_o, offset_s)
         ELSE node_collide(self, other, offset_s, offset_o)


(***************************************************************************)
(* Frame: the tiles of a buffer (Frame::from_buf) and the image read back  *)
(* from them (Frame::get_img_buf).  A Tile is the function from the index  *)
(* y * TILE_SIZE + x of its Some(Color) dots to their colours; every other *)
(* dot is None.                                                            *)
(***************************************************************************)
U8_MAX == 255

\* an image whose listed pixels have the colours rgb and the alpha bytes px
ImageRGB(w, h, px, rgb) == [w |-> w, h |-> h, px |-> px, rgb |-> rgb]

\* the four channels <<r, g, b, a>> of a pixel; RgbaImage::new is all zero
get_rgba(buf, x, y) ==
    IF <<x, y>> \in DOMAIN buf.px THEN buf.rgb[<<x, y>>] \o <<buf.px[<<x, y>>]>>
    ELSE <<0, 0, 0, 0>>

tile_num(len) == (len + TILE_SIZE - 1) \div TILE_SIZE

\* Color::from_rgba: None for a transparent pixel, else the three colour bytes
from_rgba(rgba) ==
    IF is_trans(rgba[4]) THEN None ELSE [r |-> rgba[1], g |-> rgba[2], b |-> rgba[3]]

\* Color::to_rgba: alpha is T::max_value()
to_rgba(c) == <<c.r, c.g, c.b, U8_MAX>>

dot_to_rgba(dot) == IF dot = None THEN <<0, 0, 0, 0>> ELSE to_rgba(dot)

\* the position of the pixel p in range.into_iter()
RangeIndex(range, p) == (p[2] - range.ys) * xlen(range) + (p[1] - range.xs)

\* buf_rect of the tile at tile point <<tx, ty>>
TileBufRect(w, h, tx, ty) ==
    LET sx == TILE_SIZE * tx
        sy == TILE_SIZE * ty
    IN  RectRange(sx, sy, Min(sx + TILE_SIZE, w), Min(sy + TILE_SIZE, h))

\* gen_rect_conv(buf, Tile::default, buf_rect, tile_rect(), Color::from_rgba):
\* the k-th pixel of buf_rect is converted into the k-th dot of tile_rect()
gen_rect_conv(buf, buf_rect) ==
    LET inside == {p \in DOMAIN buf.px :
                      /\ buf_rect.xs <= p[1] /\ p[1] < buf_rect.xe
                      /\ buf_rect.ys <= p[2] /\ p[2] < buf_rect.ye
                      /\ RangeIndex(buf_rect, p) < ZipLen(buf_rect)
                      /\ from_rgba(get_rgba(buf, p[1], p[2])) # None}
    IN  [k \in {RangeIndex(buf_rect, p) : p \in inside} |->
            from_rgba(get_rgba(buf, buf_rect.xs + (k % xlen(buf_rect)),
                                    buf_rect.ys + (k \div xlen(buf_rect))))]

\* the tiles of Frame::from_buf, row by row, each with its tile point
FrameTiles(buf) ==
    LET tw == tile_num(buf.w)
        th == tile_num(buf.h)
    IN  [i \in 1..(tw * th) |->
            LET tx == (i - 1) % tw
                ty == (i - 1) \div tw
            IN  [tile |-> gen_rect_conv(buf, TileBufRect(buf.w, buf.h, tx, ty)),
                 point |-> <<tx, ty>>]]

\* Frame::from_buf (the name is left out)
frame_from_buf(buf) ==
    IF RectRange(0, 0, tile_num(buf.w), tile_num(buf.h)) = None THEN None
    ELSE Bind(from_buf(buf), LAMBDA mesh :
           IF mesh = Panic THEN Panic
           ELSE IF mesh = None THEN None
           ELSE [kind |-> "Frame", tiles |-> FrameTiles(buf), mesh |-> mesh,
                 w_orig |-> buf.w, h_orig |-> buf.h])

\* a copy that places the dot k of a tile at its tile coordinates
\* (k % TILE_SIZE, k \div TILE_SIZE) of buf_rect rather than at the k-th pixel
TileWritesByTileXY(f, i) ==
    LET buf_rect == TileBufRect(f.w_orig, f.h_orig, f.tiles[i].point[1], f.tiles[i].point[2])
    IN  {[pos |-> <<buf_rect.xs + TilePos(k)[1], buf_rect.ys + TilePos(k)[2]>>,
          rgba |-> dot_to_rgba(f.tiles[i].tile[k])] :
            k \in {j \in DOMAIN f.tiles[i].tile : j < ZipLen(buf_rect)}}

\* copy_rect_conv(tile, &mut buf, tile_rect(), buf_rect, dot_to_rgba): the
\* pixels one tile writes with a value other than zero
TileWrites(f, i) ==
    LET buf_rect == TileBufRect(f.w_orig, f.h_orig, f.tiles[i].point[1], f.tiles[i].point[2])
    IN  {[pos |-> BufPos(buf_rect, k), rgba |-> dot_to_rgba(f.tiles[i].tile[k])] :
            k \in {j \in DOMAIN f.tiles[i].tile : j < ZipLen(buf_rect)}}

\* Frame::get_img_buf
get_img_buf(f) ==
    IF \E i \in 1..Len(f.tiles) :
           TileBufRect(f.w_orig, f.h_orig, f.tiles[i].point[1], f.tiles[i].point[2]) = None
    THEN None
    ELSE Bind(UNION {TileWrites(f, i) : i \in 1..Len(f.tiles)}, LAMBDA written :
           LET at(p) == (CHOOSE t \in written : t.pos = p).rgba
           IN  ImageRGB(f.w_orig, f.h_orig,
                        [p \in {t.pos : t \in written} |-> at(p)[4]],
                        [p \in {t.pos : t \in written} |-> SubSeq(at(p), 1, 3)]))

(***************************************************************************)
(* schedule.rs: Scheduler, Schedule, ScheduleType, and Span of lib.rs.     *)
(* Scheduler.inner is the set of its Schedule entries; the model pushes    *)
(* every action at most once, so no two entries are equal.                 *)
(***************************************************************************)
\* u64::max_value() ^ x and u64::max_value() - x: the complement of x, which
\* orders clock values in reverse; written as the two's complement -1 - x
Not64(x) == -1 - x

\* Span::new, Span::length
SpanNew(s, e) == [start |-> s, end |-> e]
length(s) == 1 + s.end - s.start

\* ScheduleType::once, span, repeated_once, repeated_span
once(start) == [tag |-> "Once", c |-> start]
span(start, len) == [tag |-> "Span", s |-> SpanNew(start, start + len - 1)]
repeated_once(start, sp) == [tag |-> "RepeatedOnce", span |-> sp, next |-> start]
repeated_span(start, sp, exec_span) ==
    [tag |-> "RepeatedSpan", span |-> sp, next |-> SpanNew(start, start + exec_span - 1),
     exec_span |-> exec_span]

\* ScheduleType::start
start(typ) ==
    CASE typ.tag = "Once" -> typ.c
      [] typ.tag = "Span" -> typ.s.start
      [] typ.tag = "RepeatedOnce" -> typ.next
      [] typ.tag = "RepeatedSpan" -> typ.next.start

\* Schedule::new with the start itself as the key
ScheduleNewPlainKey(action, typ) == [action |-> action, typ |-> typ, key |-> start(typ)]

\* Schedule::new
ScheduleNew(action, typ) == [action |-> action, typ |-> typ, key |-> Not64(start(typ))]

\* the Span arm of the match in pop: what is pushed to nexts; this one stops a tick early
RequeueSpanShort(schedule) ==
    IF length(schedule.typ.s) <= 2 THEN {}
    ELSE {ScheduleNew(schedule.action,
                      [tag |-> "Span", s |-> SpanNew(schedule.typ.s.start + 1, schedule.typ.s.end)])}

\* the Span arm of the match in pop: what is pushed to nexts
RequeueSpan(schedule) ==
    IF length(schedule.typ.s) <= 1 THEN {}
    ELSE {ScheduleNew(schedule.action,
                      [tag |-> "Span", s |-> SpanNew(schedule.typ.s.start + 1, schedule.typ.s.end)])}

\* the RepeatedOnce arm with the period counted from the tick after count
RequeueRepeatedOnceLate(schedule, count) ==
    {ScheduleNew(schedule.action,
                 [tag |-> "RepeatedOnce", span |-> schedule.typ.span,
                  next |-> count + 1 + schedule.typ.span])}

\* the RepeatedOnce arm
RequeueRepeatedOnce(schedule, count) ==
    {ScheduleNew(schedule.action,
                 [tag |-> "RepeatedOnce", span |-> schedule.typ.span,
                  next |-> count + schedule.typ.span])}

\* the RepeatedSpan arm with span measured from the end of one run to the
\* start of the next
RequeueRepeatedSpanEndToStart(schedule, count) ==
    LET typ == schedule.typ
        next_span == IF length(typ.next) <= 1
                     THEN SpanNew(count + typ.span, count + typ.span + typ.exec_span - 1)
                     ELSE SpanNew(typ.next.start + 1, typ.next.end)
    IN  IF next_span.start > count
        THEN {ScheduleNew(schedule.action,
                          [tag |-> "RepeatedSpan", span |-> typ.span,
                           next |-> next_span, exec_span |-> typ.exec_span])}
        ELSE {}

\* the RepeatedSpan arm
RequeueRepeatedSpan(schedule, count) ==
    LET typ == schedule.typ
        next_span == IF length(typ.next) <= 1
                     THEN SpanNew(count + typ.span + 1 - typ.exec_span, count + typ.span)
                     ELSE SpanNew(typ.next.start + 1, typ.next.end)
    IN  IF next_span.start > count
        THEN {ScheduleNew(schedule.action,
                          [tag |-> "RepeatedSpan", span |-> typ.span,
                           next |-> next_span, exec_span |-> typ.exec_span])}
        ELSE {}

\* the match in pop: the schedules pushed to nexts for one popped schedule
Requeue(schedule, count) ==
    CASE schedule.typ.tag = "Once" -> {}
      [] schedule.typ.tag = "Span" -> RequeueSpan(schedule)
      [] schedule.typ.tag = "RepeatedOnce" -> RequeueRepeatedOnce(schedule, count)
      [] schedule.typ.tag = "RepeatedSpan" -> RequeueRepeatedSpan(schedule, count)

\* BinaryHeap::peek_mut: an entry with the greatest key
Peek(h) == CHOOSE t \in h : \A u \in h : u.key <= t.key

RECURSIVE PopLoopStrict(_, _, _, _)
\* a loop that stops at a schedule whose start is count itself
PopLoopStrict(h, nexts, res, count) ==
    IF h = {} THEN [inner |-> nexts, res |-> res]
    ELSE Bind(Peek(h), LAMBDA schedule :
           IF schedule.key <= Not64(count) THEN [inner |-> h \cup nexts, res |-> res]
           ELSE Bind(h \ {schedule}, LAMBDA rest :
                Bind(nexts \cup Requeue(schedule, count), LAMBDA n :
                  PopLoopStrict(rest, n, Append(res, schedule.action), count))))

RECURSIVE PopLoop(_, _, _, _)
\* the while loop of pop, from the heap h, with nexts and res so far; at its
\* end nexts is appended to what is left of the heap
PopLoop(h, nexts, res, count) ==
    IF h = {} THEN [inner |-> nexts, res |-> res]
    ELSE Bind(Peek(h), LAMBDA schedule :
           IF schedule.key < Not64(count) THEN [inner |-> h \cup nexts, res |-> res]
           ELSE Bind(h \ {schedule}, LAMBDA rest :
                Bind(nexts \cup Requeue(schedule, count), LAMBDA n :
                  PopLoop(rest, n, Append(res, schedule.action), count))))

\* Scheduler::pop
pop(h, count) == PopLoop(h, {}, << >>, count)

(***************************************************************************)
(* input.rs: the buttons of InputHandler.  pressed_buttons is a function   *)
(* from the held buttons to the clock of their first press,                *)
(* released_buttons the sequence of (button, span) pairs.  The focus and   *)
(* the mouse fields take no part in the button bookkeeping and are left    *)
(* out.  A Clock below zero stands for the u64 that wraps around to it     *)
(* (two's complement).                                                     *)
(***************************************************************************)
\* the buttons of the model
Buttons == {"A", "B"}

\* HashMap::remove
MapRemove(m, b) == [x \in DOMAIN m \ {b} |-> m[x]]

\* a press that records the clock of the latest Press: insert(b, clock)
press_button_latest(h, b, clk) ==
    [h EXCEPT !.pressed_buttons =
        [x \in DOMAIN h.pressed_buttons \cup {b} |->
            IF x = b THEN clk ELSE h.pressed_buttons[x]]]

\* InputHandler::press_button: entry(b).or_insert(clock)
press_button(h, b, clk) ==
    IF b \in DOMAIN h.pressed_buttons THEN h
    ELSE [h EXCEPT !.pressed_buttons =
              [x \in DOMAIN h.pressed_buttons \cup {b} |->
                  IF x = b THEN clk ELSE h.pressed_buttons[x]]]

\* current - 3 of release_button, the span of a button that was not pressed:
\* below 3 the subtraction overflows, which aborts in a build with overflow
\* checks and wraps around in a build without
back_three(current) ==
    IF current >= 3 THEN {SpanNew(current - 3, current)}
    ELSE {Panic, SpanNew(current - 3, current)}

\* InputHandler::release_button: the handlers the call may leave
release_button(h, b, current) ==
    IF b \in DOMAIN h.pressed_buttons
    THEN {[pressed_buttons |-> MapRemove(h.pressed_buttons, b),
           released_buttons |->
               Append(h.released_buttons, <<b, SpanNew(h.pressed_buttons[b], current)>>)]}
    ELSE {IF sp = Panic THEN Panic
          ELSE [h EXCEPT !.released_buttons = Append(@, <<b, sp>>)] :
              sp \in back_three(current)}

\* InputHandler::get_message: the buttons of the message, the Press entries
\* as a set (the order of a HashMap's iterator is not fixed) and the Release
\* entries in the order of released_buttons
get_message(h) ==
    [kind |-> "InputMessage",
     press |-> {<<b, h.pressed_buttons[b]>> : b \in DOMAIN h.pressed_buttons},
     release |-> h.released_buttons]

(***************************************************************************)
(* The pixel buffers the model loads.                                      *)
(***************************************************************************)
\* alpha bytes of listed pixels: collision bits only, visible alpha only, both
Alphas == {1, 240, 255}

SubsetsUpTo(S, n) == {T \in SUBSET S : Cardinality(T) <= n}

\* widths and heights of the buffers that are built: below one tile, one tile,
\* every scale tier and its neighbours, and beyond the last tier
BuildDims ==
    {<<1, 1>>, <<2, 2>>, <<5, 3>>, <<16, 5>>, <<16, 16>>, <<17, 17>>, <<20, 32>>,
     <<32, 32>>, <<33, 33>>, <<64, 64>>, <<65, 65>>, <<128, 100>>, <<129, 129>>,
     <<256, 256>>, <<257, 3>>, <<3, 300>>, <<512, 512>>, <<513, 1>>}

\* pixels that may be listed: the corners, the centre, and one pixel of the
\* second row, in the second tile when there is one
BuildCand(w, h) ==
    {<<0, 0>>, <<w - 1, 0>>, <<0, h - 1>>, <<w - 1, h - 1>>, <<w \div 2, h \div 2>>,
     <<Min(w - 1, 17), Min(h - 1, 1)>>}

BuildImages ==
    UNION {UNION {{Image(d[1], d[2], px) : px \in [S -> Alphas]} :
                      S \in SubsetsUpTo(BuildCand(d[1], d[2]), MaxPix)} :
               d \in BuildDims}

\* sprites that are queried (every listed pixel has alpha byte 0xFF): one tile,
\* four tiles, a sprite of two node levels, and two tiles side by side
QueryDims == {<<16, 16>>, <<32, 32>>, <<65, 65>>, <<32, 16>>}

\* pixels that may be listed: two in the first tile and, when there is one, one
\* in the tile right of and below it; for the two tiles side by side, one in
\* each, as far apart as the two of the first tile
QueryCand(w, h) ==
    IF <<w, h>> = <<32, 16>> THEN {<<14, 3>>, <<27, 4>>}
    ELSE {<<1, 2>>, <<14, 3>>, <<Min(w, 32) - 2, Min(h, 32) - 13>>}

QueryImages ==
    UNION {{Image(d[1], d[2], [p \in S |-> 255]) :
               S \in SubsetsUpTo(QueryCand(d[1], d[2]), MaxPix) \ {{}}} :
               d \in QueryDims}

\* buffers loaded as a Frame: below one tile, one tile, and sizes that are
\* not multiples of the tile size; one past the size ceiling
FrameDims == {<<5, 3>>, <<16, 16>>, <<17, 17>>, <<20, 32>>, <<33, 40>>, <<257, 3>>}

\* listed pixels <<r, g, b, a>>: opaque, opaque black, transparent with a
\* colour, and two alpha bytes that are neither 0 nor 0xFF
FramePixels == {<<10, 20, 30, 255>>, <<0, 0, 0, 255>>, <<10, 20, 30, 0>>,
                <<10, 20, 30, 240>>, <<7, 8, 9, 1>>}

FrameCand(w, h) == {<<0, 0>>, <<w - 1, h - 1>>, <<w \div 2, h \div 2>>, <<Min(w - 1, 17), 1>>}

FrameImages ==
    UNION {UNION {{ImageRGB(d[1], d[2], [p \in S |-> v[p][4]], [p \in S |-> SubSeq(v[p], 1, 3)]) :
                       v \in [S -> FramePixels]} :
                      S \in SubsetsUpTo(FrameCand(d[1], d[2]), MaxPix)} :
               d \in FrameDims}

\* the actions that may be pushed, each at most once
Actions == {"a", "b"}

\* the schedules that may be pushed
ScheduleTypes ==
    UNION {{once(st)} \cup {span(st, len) : len \in 1..MaxSpan}
               \cup {repeated_once(st, sp) : sp \in 1..MaxSpan}
               \cup {repeated_span(st, sp, e) : <<sp, e>> \in {x \in (1..MaxSpan) \X (1..MaxSpan) : x[2] <= x[1]}} :
               st \in 0..MaxStart}

\* the schedules that may be pushed when the period and the length of a run
\* are free: a period of zero, and runs longer than the period
AnyScheduleTypes ==
    UNION {{once(st), span(st, 2)}
               \cup {repeated_once(st, sp) : sp \in {0, 2}}
               \cup {repeated_span(st, sp, e) : sp \in {0, 1, 2}, e \in {1, 2, 3}} :
               st \in {0, MaxStart}}

\* world origin of the first sprite
Origins == {<<0, 0>>, <<-5, 7>>}

Near == {<<dx, dy>> : dx \in (0 - MaxOff)..MaxOff, dy \in (0 - MaxOff)..MaxOff}

(***************************************************************************)
(* State: two sprites' pixel buffers, the trees built from them            *)
(* (Frame.mesh), and the last collision query with its result.             *)
(***************************************************************************)
NoQuery == [kind |-> "NoQuery"]

\* no Frame::from_buf yet, no get_img_buf yet
NoFrame == [kind |-> "NoFrame"]
NoImage == [kind |-> "NoImage"]

\* nothing loaded as a Frame
FrameIdle == frame = NoFrame /\ img = NoImage

\* InputHandler::default(), upd_count 0, no call made
NoMessage == [kind |-> "NoMessage"]
InputIdle ==
    /\ handler = [pressed_buttons |-> << >>, released_buttons |-> << >>]
    /\ upd_count = 0
    /\ message = NoMessage
    /\ events = << >>

\* Scheduler::new(), clock 0, no call made
SchedIdle == heap = {} /\ clock = 0 /\ pushes = << >> /\ pops = << >>

Init ==
    /\ bufA \in QueryImages
    /\ bufB \in QueryImages
    /\ meshA = Unbuilt
    /\ meshB = Unbuilt
    /\ query = NoQuery
    /\ FrameIdle
    /\ SchedIdle
    /\ InputIdle

InitBuild ==
    /\ bufA \in BuildImages
    /\ bufB = Image(16, 16, [p \in {<<7, 8>>} |-> 255])
    /\ meshA = Unbuilt
    /\ meshB = Unbuilt
    /\ query = NoQuery
    /\ FrameIdle
    /\ SchedIdle
    /\ InputIdle

\* MeshTree::from_buf on the first sprite's buffer
LoadA ==
    /\ meshA = Unbuilt
    /\ meshA' = from_buf(bufA)
    /\ UNCHANGED <<bufA, bufB, meshB, query, frameVars, schedVars, inputVars>>

\* MeshTree::from_buf on the second sprite's buffer
LoadB ==
    /\ meshB = Unbuilt
    /\ meshB' = from_buf(bufB)
    /\ UNCHANGED <<bufA, bufB, meshA, query, frameVars, schedVars, inputVars>>

NextBuild == LoadA \/ LoadB

SpecBuild == InitBuild /\ [][NextBuild]_vars

InitFrame ==
    /\ bufA \in FrameImages
    /\ bufB = Image(16, 16, [p \in {<<7, 8>>} |-> 255])
    /\ meshA = Unbuilt
    /\ meshB = Unbuilt
    /\ query = NoQuery
    /\ FrameIdle
    /\ SchedIdle
    /\ InputIdle

\* Frame::from_buf on the first sprite's buffer
FrameFromBuf ==
    /\ frame = NoFrame
    /\ frame' = frame_from_buf(bufA)
    /\ UNCHANGED <<meshVars, img, schedVars, inputVars>>

\* Frame::get_img_buf on the frame that was built
GetImgBuf ==
    /\ frame.kind = "Frame"
    /\ img = NoImage
    /\ img' = get_img_buf(frame)
    /\ UNCHANGED <<meshVars, frame, schedVars, inputVars>>

NextFrame == FrameFromBuf \/ GetImgBuf

SpecFrame == InitFrame /\ [][NextFrame]_vars

InitSched ==
    /\ bufA = Image(16, 16, [p \in {<<7, 8>>} |-> 255])
    /\ bufB = Image(16, 16, [p \in {<<7, 8>>} |-> 255])
    /\ meshA = Unbuilt
    /\ meshB = Unbuilt
    /\ query = NoQuery
    /\ FrameIdle
    /\ SchedIdle
    /\ InputIdle

\* Scheduler::push(schedule, action); pushes records the call and the clock at which it is made
Push(typ, action) ==
    /\ action \notin DOMAIN pushes
    /\ clock <= MaxStart
    /\ heap' = heap \cup {ScheduleNew(action, typ)}
    /\ pushes' = [a \in DOMAIN pushes \cup {action} |->
                      IF a = action THEN [typ |-> typ, at |-> clock] ELSE pushes[a]]
    /\ UNCHANGED <<meshVars, frameVars, clock, pops, inputVars>>

\* the game loop's tick: Scheduler::pop(clock), then the clock advances;
\* pops[i + 1] is what pop(i) returned
Pop ==
    /\ clock < MaxClock
    /\ \E out \in {pop(heap, clock)} :
           /\ heap' = out.inner
           /\ pops' = Append(pops, out.res)
    /\ clock' = clock + 1
    /\ UNCHANGED <<meshVars, frameVars, pushes, inputVars>>

NextSched ==
    \/ \E typ \in ScheduleTypes, action \in Actions : Push(typ, action)
    \/ Pop

SpecSched == InitSched /\ [][NextSched]_vars

\* a tick of a game loop that does not pop at every clock value:
\* Scheduler::pop(count) at the clock or one past it, up to the end of the
\* second run of the longest schedule; nothing is returned at a clock value
\* passed over
PopAt(count) ==
    /\ clock <= count
    /\ count <= clock + 1
    /\ count <= MaxStart + MaxSpan
    /\ \E out \in {pop(heap, count)} :
           /\ heap' = out.inner
           /\ pops' = pops \o [i \in 1..(count - clock) |-> << >>] \o <<out.res>>
    /\ clock' = count + 1
    /\ UNCHANGED <<meshVars, frameVars, pushes, inputVars>>

NextSchedSkip ==
    \/ \E typ \in AnyScheduleTypes, action \in Actions : Push(typ, action)
    \/ \E count \in 0..MaxClock : PopAt(count)

SpecSchedSkip == InitSched /\ [][NextSchedSkip]_vars

InitInput ==
    /\ bufA = Image(16, 16, [p \in {<<7, 8>>} |-> 255])
    /\ bufB = Image(16, 16, [p \in {<<7, 8>>} |-> 255])
    /\ meshA = Unbuilt
    /\ meshB = Unbuilt
    /\ query = NoQuery
    /\ FrameIdle
    /\ SchedIdle
    /\ InputIdle

\* a call made of the handler, at the clock it was made
Event(op, b) == [op |-> op, b |-> b, at |-> upd_count]

\* the handler has not aborted and another call may be made
MayCall == handler # Panic /\ Len(events) < MaxEvents

\* InputHandler::handle of a button event with ButtonState::Press
HandlePress(b) ==
    /\ MayCall
    /\ handler' = press_button(handler, b, upd_count)
    /\ events' = Append(events, Event("Press", b))
    /\ UNCHANGED <<meshVars, frameVars, schedVars, upd_count, message>>

\* InputHandler::handle of a button event with ButtonState::Release
HandleRelease(b) ==
    /\ MayCall
    /\ handler' \in release_button(handler, b, upd_count)
    /\ events' = Append(events, Event("Release", b))
    /\ UNCHANGED <<meshVars, frameVars, schedVars, upd_count, message>>

\* InputHandler::get_message: released_buttons is swapped for an empty list
GetMessage ==
    /\ MayCall
    /\ message' = get_message(handler)
    /\ handler' = [handler EXCEPT !.released_buttons = << >>]
    /\ events' = Append(events, Event("Get", "-"))
    /\ UNCHANGED <<meshVars, frameVars, schedVars, upd_count>>

\* Loop::Update of AltenaCore::handle_events
Update ==
    /\ handler # Panic
    /\ upd_count < MaxUpd
    /\ upd_count' = upd_count + 1
    /\ UNCHANGED <<meshVars, frameVars, schedVars, handler, message, events>>

NextInput ==
    \/ \E b \in Buttons : HandlePress(b)
    \/ \E b \in Buttons : HandleRelease(b)
    \/ GetMessage
    \/ Update

SpecInput == InitInput /\ [][NextInput]_vars

\* Collide::collide: the first sprite's tree against the second's, at their origins.
\* A query changes neither tree, so one query per behaviour reaches every query.
Collide(oa, ob) ==
    /\ query = NoQuery
    /\ IsTree(meshA)
    /\ IsTree(meshB)
    /\ \E out \in {collide(meshA, meshB, oa, ob)} :
           query' = [kind |-> "Query", oa |-> oa, ob |-> ob,
                     res |-> out.res, scans |-> out.scans]
    /\ UNCHANGED <<bufA, bufB, meshA, meshB, frameVars, schedVars, inputVars>>

\* the second sprite is placed so that one candidate pixel of each sprite
\* coincides, or nearly so
Next ==
    \/ LoadA
    \/ LoadB
    \/ \E oa \in Origins, p \in QueryCand(bufA.w, bufA.h), q \in QueryCand(bufB.w, bufB.h),
          e \in Near :
           Collide(oa, VAdd(VAdd(oa, VSub(p, q)), e))

Spec == Init /\ [][Next]_vars

(***************************************************************************)
(* What the claims speak of.                                               *)
(***************************************************************************)
\* AltenaAlpha::collision_bits: the low four bits of the alpha byte
collision_bits(alpha) == alpha % 16

\* the occupied pixels of a buffer, by the collision-bit convention
Occupied(buf) ==
    {p \in DOMAIN buf.px :
        /\ p[1] \in 0..(buf.w - 1)
        /\ p[2] \in 0..(buf.h - 1)
        /\ collision_bits(buf.px[p]) # 0}

\* the set bits (x, y) of a leaf
LeafBits(leaf) ==
    UNION {{<<x, y>> : x \in {c \in 0..(TILE_SIZE - 1) : HasCol(leaf.inner[y + 1], c)}} :
               y \in {r \in 0..(TILE_SIZE - 1) : leaf.inner[r + 1] # 0}}

\* the translation of the quadrant dir of a node of the given scale: the
\* quadrant direction times the child scale times the tile size
QuadTranslation(dir, scale) ==
    LET d == CASE dir = "LeftUp" -> <<0, 0>> [] dir = "RightUp" -> <<1, 0>>
               [] dir = "RightDown" -> <<1, 1>> [] dir = "LeftDown" -> <<0, 1>>
    IN  <<d[1] * (scale \div 2) * 16, d[2] * (scale \div 2) * 16>>

RECURSIVE TreeBits(_)
\* the set bits of a tree, each leaf placed at the sum of the quadrant
\* translations of its ancestors
TreeBits(tree) ==
    IF tree.kind = "Leaf" THEN LeafBits(tree)
    ELSE UNION {{VAdd(QuadTranslation(tree.inner[i].dir, tree.scale), b) :
                    b \in TreeBits(tree.inner[i].tree)} : i \in 1..Len(tree.inner)}

InRect(p, r) == /\ r.x <= p[1] /\ p[1] < r.x + r.w
                /\ r.y <= p[2] /\ p[2] < r.y + r.h

RectInside(a, b) == /\ b.x <= a.x /\ a.x + a.w <= b.x + b.w
                    /\ b.y <= a.y /\ a.y + a.h <= b.y + b.h

Queried == query.kind = "Query"

\* the world pixels occupied in both sprites at the offsets of the query
SharedPixels ==
    {VAdd(p, query.oa) : p \in Occupied(bufA)} \cap {VAdd(q, query.ob) : q \in Occupied(bufB)}

Kinds == <<meshA.kind, meshB.kind>>

\* C1: collide returns a rectangle if and only if the two sprites share an
\* occupied world pixel, for every pair of variants.
C1_CollideIffSharedPixel ==
    Queried => ((query.res # None) <=> (SharedPixels # {}))

\* C2: A.collide(B, oa, ob) and B.collide(A, ob, oa) agree on collision or no
\* collision, and on the rectangle when both return one.
C2_Symmetry ==
    Queried =>
        LET rev == collide(meshB, meshA, query.ob, query.oa).res
        IN  /\ (query.res = None) <=> (rev = None)
            /\ (query.res # None /\ rev # None) => query.res = rev

Shifts ==
    {<<dx * m, dy * m>> : dx \in {-1, 0, 1}, dy \in {-1, 0, 1},
                          m \in {1} \cup {TILE_SIZE * k : k \in 1..MaxShift}}

\* C3: moving both offsets by the same vector v leaves collision or no collision
\* unchanged and moves the reported rectangle by v.
C3_TranslationInvariance ==
    Queried =>
        \A v \in Shifts :
            LET moved == collide(meshA, meshB, VAdd(query.oa, v), VAdd(query.ob, v)).res
            IN  moved = (IF query.res = None THEN None ELSE slide_rect(query.res, v))

\* a query of C3's case: a collision between the given variants
C3_Witness ==
    /\ Queried
    /\ query.res # None
    /\ Kinds = <<"Node", "Node">>
    /\ \E i \in 1..Len(meshA.inner) : meshA.inner[i].tree.kind = "Node"

\* C4: when the top-level bounding boxes, moved by their offsets, do not
\* intersect, the query returns nothing and reads no row mask; and no leaf
\* pair is row-scanned unless the two leaves' moved bounding boxes intersect.
C4_NoOverlapPruning ==
    Queried =>
        /\ ~RectIntersects(slide_rect(meshA.bbox, query.oa), slide_rect(meshB.bbox, query.ob))
              => (query.res = None /\ query.scans = <<>>)
        /\ \A i \in 1..Len(query.scans) : RectIntersects(query.scans[i].s, query.scans[i].o)

\* a query of C4's case: two node trees whose moved boxes touch along a
\* vertical edge without intersecting
C4_Witness ==
    /\ Queried
    /\ Kinds = <<"Node", "Node">>
    /\ LET a == slide_rect(meshA.bbox, query.oa)
           b == slide_rect(meshB.bbox, query.ob)
       IN  /\ ~RectIntersects(a, b)
           /\ a.x + a.w = b.x
           /\ a.y < b.y + b.h /\ b.y < a.y + a.h

\* C5: a returned rectangle lies inside both trees' moved top-level bounding
\* boxes and contains a world pixel that is occupied in both sprites.
C5_ResultRect ==
    (Queried /\ query.res # None) =>
        /\ RectInside(query.res, slide_rect(meshA.bbox, query.oa))
        /\ RectInside(query.res, slide_rect(meshB.bbox, query.ob))
        /\ \E p \in SharedPixels : InRect(p, query.res)

(***************************************************************************)
(* Construction.                                                           *)
(***************************************************************************)
\* the two sprites: buffer and what from_buf made of it
Sprites == {[buf |-> bufA, mesh |-> meshA], [buf |-> bufB, mesh |-> meshB]}

\* the pixels a construction result holds: none when there is no tree
MeshBits(mesh) == IF IsTree(mesh) THEN TreeBits(mesh) ELSE {}

\* the smallest rectangle around a non-empty set of pixels
TightBox(P) ==
    LET x0 == SetMin({p[1] : p \in P}, (CHOOSE p \in P : TRUE)[1])
        y0 == SetMin({p[2] : p \in P}, (CHOOSE p \in P : TRUE)[2])
        x1 == SetMax({p[1] : p \in P}, 0)
        y1 == SetMax({p[2] : p \in P}, 0)
    IN  Rect(x0, y0, x1 - x0 + 1, y1 - y0 + 1)

\* C6: in every buffer construction accepts, a pixel is occupied if and only
\* if the tree holds a leaf, placed by its ancestors' quadrant translations,
\* whose bit for that pixel is set.
C6_FullCoverage ==
    \A sp \in Sprites :
        sp.mesh.kind \in {"Leaf", "Node", "None"} => MeshBits(sp.mesh) = Occupied(sp.buf)

\* C7: the tree built from a buffer with an occupied pixel has the tight
\* bounding box of the occupied pixels.
C7_TightBbox ==
    \A sp \in Sprites :
        (sp.mesh.kind \in {"Leaf", "Node", "None"} /\ Occupied(sp.buf) # {}) =>
            /\ IsTree(sp.mesh)
            /\ sp.mesh.bbox = TightBox(Occupied(sp.buf))

RECURSIVE BitsContained(_)
\* every set bit below tree, placed within tree, lies in tree's bounding box,
\* and the same holds of every subtree
BitsContained(tree) ==
    /\ \A b \in TreeBits(tree) : InRect(b, tree.bbox)
    /\ tree.kind = "Node" =>
           \A i \in 1..Len(tree.inner) : BitsContained(tree.inner[i].tree)

\* C8: every set bit of a leaf lies inside the leaf's bounding box and, placed
\* at the leaf's position, inside the bounding box of every ancestor.
C8_BboxContainment ==
    \A sp \in Sprites : IsTree(sp.mesh) => BitsContained(sp.mesh)

\* a tree of C8's case: two node levels above leaves in different quadrants
C8_Witness ==
    /\ meshA.kind = "Node"
    /\ \E i \in 1..Len(meshA.inner) :
           /\ meshA.inner[i].tree.kind = "Node"
           /\ Len(meshA.inner[i].tree.inner) >= 2

\* C9: construction counts a pixel as occupied if and only if the low four
\* bits of its alpha byte are non-zero.  Stated of buffers of at most one
\* tile: the bit of the tile position the fold pairs with a pixel is set if
\* and only if that pixel's collision bits are non-zero.
C9_OccupancyConvention ==
    \A sp \in Sprites :
        (sp.mesh.kind \in {"Leaf", "None"} /\ sp.buf.w <= TILE_SIZE /\ sp.buf.h <= TILE_SIZE) =>
            LET range == RectRange(0, 0, sp.buf.w, sp.buf.h)
            IN  \A k \in 0..(ZipLen(range) - 1) :
                    (TilePos(k) \in MeshBits(sp.mesh))
                        <=> (collision_bits(get_pixel(sp.buf, BufPos(range, k)[1],
                                                      BufPos(range, k)[2])) # 0)

RECURSIVE WellFormed(_)
\* no all-zero leaf, no leaf with an empty bounding box, no node without children
WellFormed(tree) ==
    IF tree.kind = "Leaf"
    THEN /\ \E i \in 1..TILE_SIZE : tree.inner[i] # 0
         /\ tree.bbox.w > 0 /\ tree.bbox.h > 0
    ELSE /\ Len(tree.inner) >= 1
         /\ \A i \in 1..Len(tree.inner) : WellFormed(tree.inner[i].tree)

\* C10: a buffer without an occupied pixel yields no tree and no abort, and a
\* tree that is built has no all-zero leaf, no leaf with an empty bounding
\* box and no node without children.
C10_ConstructionEmpty ==
    \A sp \in Sprites :
        /\ (sp.mesh # Unbuilt /\ Occupied(sp.buf) = {}) => sp.mesh = None
        /\ IsTree(sp.mesh) => WellFormed(sp.mesh)

\* the part of C10 that holds of the code: with occupancy read as the code
\* reads it (a non-zero alpha byte), a buffer of a supported size without an
\* occupied pixel yields no tree, and every tree is well formed
ConstructionEmptyByAlphaByte ==
    \A sp \in Sprites :
        /\ (sp.mesh \notin {Unbuilt, Panic} /\ \A p \in DOMAIN sp.buf.px : is_trans(sp.buf.px[p]))
               => sp.mesh = None
        /\ IsTree(sp.mesh) => WellFormed(sp.mesh)

\* the longer side of a sprite's buffer
MaxSide(buf) == Max(buf.w, buf.h)

\* the sprites whose construction has run
Loaded == {sp \in Sprites : sp.mesh # Unbuilt}

\* C11 as stated: construction aborts exactly when the longer side of the
\* buffer exceeds 16 * 2^5 = 512 pixels.
C11_CeilingFiveDoublings ==
    \A sp \in Loaded : (sp.mesh = Panic) <=> (MaxSide(sp.buf) > 32 * TILE_SIZE)

\* C11, amended: construction aborts exactly when the longer side of the
\* buffer exceeds 16 * 2^4 = 256 pixels (more than four doublings of the tile
\* size), and completes without aborting for every smaller buffer.
C11_CeilingFourDoublings ==
    \A sp \in Loaded : (sp.mesh = Panic) <=> (MaxSide(sp.buf) > 16 * TILE_SIZE)

\* the first buffer is one pixel past the ceiling and its construction aborted
C11_Witness ==
    /\ meshA = Panic
    /\ MaxSide(bufA) = 16 * TILE_SIZE + 1
    /\ bufA.px # << >>

RECURSIVE SmallestPow2From(_, _)
\* the smallest power of two s, from s on, with s * TILE_SIZE >= len
SmallestPow2From(len, s) ==
    IF s * TILE_SIZE >= len THEN s ELSE SmallestPow2From(len, 2 * s)

\* C12: the tree built from a buffer is a Leaf when the smallest power of two
\* s with s * 16 >= max(w, h) is 1, and otherwise a Node whose stored scale is s.
C12_ScaleSelection ==
    \A sp \in Loaded :
        IsTree(sp.mesh) =>
            LET s == SmallestPow2From(MaxSide(sp.buf), 1)
            IN  IF s = 1 THEN sp.mesh.kind = "Leaf"
                ELSE sp.mesh.kind = "Node" /\ sp.mesh.scale = s

\* C13: a Frame built from a buffer of a supported size without an occupied
\* pixel is a valid frame that has no collision tree.
C13_TransparentFrame ==
    (frame # NoFrame /\ MaxSide(bufA) <= 16 * TILE_SIZE /\ Occupied(bufA) = {}) =>
        (frame.kind = "Frame" /\ frame.mesh = None)

\* what the code does with a buffer whose alpha bytes are all zero: no Frame
TransparentFrameIsAbsent ==
    (frame # NoFrame /\ MaxSide(bufA) <= 16 * TILE_SIZE
        /\ \A p \in DOMAIN bufA.px : bufA.px[p] = 0) => frame = None

\* the pixels at which two images may differ from all-zero
Listed(a, b) == DOMAIN a.px \cup DOMAIN b.px

\* C14 as stated: the image read back has the size of the original, its
\* pixels are transparent where the original's are, and equal in all four
\* channels where the original's are not transparent.
C14_RoundTripAllChannels ==
    (img # NoImage) =>
        /\ img # None
        /\ img.w = bufA.w /\ img.h = bufA.h
        /\ \A p \in Listed(bufA, img) :
               IF is_trans(get_rgba(bufA, p[1], p[2])[4])
               THEN is_trans(get_rgba(img, p[1], p[2])[4])
               ELSE get_rgba(img, p[1], p[2]) = get_rgba(bufA, p[1], p[2])

\* C14, amended: the same, but a pixel that is not transparent keeps its
\* three colour channels and is read back with alpha 0xFF.
C14_RoundTripColour ==
    (img # NoImage) =>
        /\ img # None
        /\ img.w = bufA.w /\ img.h = bufA.h
        /\ \A p \in Listed(bufA, img) :
               IF is_trans(get_rgba(bufA, p[1], p[2])[4])
               THEN is_trans(get_rgba(img, p[1], p[2])[4])
               ELSE get_rgba(img, p[1], p[2])
                        = SubSeq(get_rgba(bufA, p[1], p[2]), 1, 3) \o <<U8_MAX>>

\* an image read back from a frame of several tiles whose width is not a
\* multiple of the tile size, with a coloured pixel in a tile of the last
\* column and a pixel whose alpha byte is not 0xFF
C14_Witness ==
    /\ img \notin {NoImage, None}
    /\ bufA.w % TILE_SIZE # 0 /\ bufA.w > TILE_SIZE
    /\ \E p \in DOMAIN bufA.px : p[1] >= TILE_SIZE /\ bufA.px[p] = U8_MAX /\ bufA.rgb[p] # <<0, 0, 0>>
    /\ \E p \in DOMAIN bufA.px : bufA.px[p] \notin {0, U8_MAX}

\* how many times pop(i) returned the action a
Returned(a, i) == Cardinality({j \in DOMAIN pops[i + 1] : pops[i + 1][j] = a})

\* the actions pushed with a schedule of the given tag before pop(start)
PushedInTime(tag) ==
    {a \in DOMAIN pushes : pushes[a].typ.tag = tag /\ pushes[a].at <= start(pushes[a].typ)}

\* the clock values whose pop has been made
Popped == 0..(clock - 1)

\* C15: an action pushed with once(c) before pop(c) is returned once by
\* pop(c) and by no other pop.
C15_Once ==
    \A a \in PushedInTime("Once") : \A i \in Popped :
        Returned(a, i) = (IF i = pushes[a].typ.c THEN 1 ELSE 0)

\* pop(c) of a Once schedule and a later pop have been made, with another
\* action pushed as well
C15_Witness ==
    /\ DOMAIN pushes = Actions
    /\ \E a \in PushedInTime("Once") :
           /\ pushes[a].typ.c >= 1
           /\ clock >= pushes[a].typ.c + 2
           /\ Returned(a, pushes[a].typ.c) = 1

\* C16: an action pushed with span(start, len), len >= 1, before pop(start)
\* is returned once by every pop(i) with start <= i < start + len and by no
\* other pop.
C16_Span ==
    \A a \in PushedInTime("Span") : \A i \in Popped :
        LET s == pushes[a].typ.s
        IN  Returned(a, i) = (IF s.start <= i /\ i <= s.end THEN 1 ELSE 0)

\* a Span schedule of at least two ticks has run out and a later pop was made
C16_Witness ==
    \E a \in PushedInTime("Span") :
        /\ length(pushes[a].typ.s) >= 2
        /\ clock >= pushes[a].typ.s.end + 2
        /\ Returned(a, pushes[a].typ.s.end) = 1

\* C17: an action pushed with repeated_once(start, span), span >= 1, before
\* pop(start) is returned once by pop(i) for i = start + k * span and by no
\* other pop.
C17_RepeatedOnce ==
    \A a \in PushedInTime("RepeatedOnce") : \A i \in Popped :
        LET st == pushes[a].typ.next
            sp == pushes[a].typ.span
        IN  Returned(a, i) = (IF i >= st /\ (i - st) % sp = 0 THEN 1 ELSE 0)

\* a RepeatedOnce schedule with a period of at least two ticks was returned three times
C17_Witness ==
    \E a \in PushedInTime("RepeatedOnce") :
        /\ pushes[a].typ.span >= 2
        /\ clock > pushes[a].typ.next + 2 * pushes[a].typ.span
        /\ Returned(a, pushes[a].typ.next + 2 * pushes[a].typ.span) = 1

\* C18: an action pushed with repeated_span(start, span, exec_span),
\* 1 <= exec_span <= span, before pop(start) is returned by pop(i), once,
\* exactly when i >= start and (i - start) mod span < exec_span.
C18_RepeatedSpan ==
    \A a \in PushedInTime("RepeatedSpan") : \A i \in Popped :
        LET st == pushes[a].typ.next.start
            sp == pushes[a].typ.span
            e == pushes[a].typ.exec_span
        IN  (1 <= e /\ e <= sp) =>
                Returned(a, i) = (IF i >= st /\ (i - st) % sp < e THEN 1 ELSE 0)

\* a RepeatedSpan schedule with 2 <= exec_span < span has begun its third run
C18_Witness ==
    \E a \in PushedInTime("RepeatedSpan") :
        /\ pushes[a].typ.exec_span >= 2
        /\ pushes[a].typ.exec_span < pushes[a].typ.span
        /\ clock > pushes[a].typ.next.start + 2 * pushes[a].typ.span
        /\ Returned(a, pushes[a].typ.next.start + 2 * pushes[a].typ.span) = 1

\* the translation construction gave the children of a node: left_up
BuiltAt(node, dir) == QuadLeftUp(dir, node.scale \div 2)

\* C19, for the top-level node of a query whose moved top-level boxes
\* intersect (its children are then placed and tested): the translation the
\* query adds to the node's offset for a child equals the translation
\* construction used for that child, on the Node-against-Node path (children
\* of the first tree) and on the Leaf-against-Node paths.
C19_PlacementConsistency ==
    (Queried /\ RectIntersects(slide_rect(meshA.bbox, query.oa), slide_rect(meshB.bbox, query.ob))) =>
        /\ Kinds = <<"Node", "Node">> =>
               \A i \in 1..Len(meshA.inner) :
                   compensate(meshA, meshA.inner[i].dir) = BuiltAt(meshA, meshA.inner[i].dir)
        /\ Kinds = <<"Leaf", "Node">> =>
               \A i \in 1..Len(meshB.inner) :
                   compensate_n(meshB, meshB.inner[i].dir) = BuiltAt(meshB, meshB.inner[i].dir)
        /\ Kinds = <<"Node", "Leaf">> =>
               \A i \in 1..Len(meshA.inner) :
                   compensate_n(meshA, meshA.inner[i].dir) = BuiltAt(meshA, meshA.inner[i].dir)

\* number of pixels of a range, none for no range
RangeArea(r) == IF r = None THEN 0 ELSE xlen(r) * ylen(r)

\* an intersection that leaves the region as it is
QuadInterWhole(range_orig, dir) == range_orig

\* inter of from_buf_ for the region range_orig and the quadrant dir
QuadInter(range_orig, dir) ==
    RangeIntersection(range_orig,
                      QuadRange(dir, get_scale(Max(xlen(range_orig), ylen(range_orig))) \div 2))

RECURSIVE Subdivided(_)
\* the regions from_buf_ subdivides when it is called on range_orig: the
\* region itself when its scale is above 1, and those of its quadrants
Subdivided(range_orig) ==
    IF get_scale(Max(xlen(range_orig), ylen(range_orig))) <= 1 THEN {}
    ELSE {range_orig} \cup
         UNION {IF QuadInter(range_orig, TileDirs[d]) = None THEN {}
                ELSE Subdivided(QuadInter(range_orig, TileDirs[d])) : d \in 1..4}

\* the four pieces of a region are pairwise disjoint and cover it
QuadsPartition(range_orig) ==
    /\ \A d, e \in 1..4 :
           (/\ d # e
            /\ QuadInter(range_orig, TileDirs[d]) # None
            /\ QuadInter(range_orig, TileDirs[e]) # None)
               => RangeIntersection(QuadInter(range_orig, TileDirs[d]),
                                    QuadInter(range_orig, TileDirs[e])) = None
    /\ RangeArea(QuadInter(range_orig, TileDirs[1])) + RangeArea(QuadInter(range_orig, TileDirs[2]))
         + RangeArea(QuadInter(range_orig, TileDirs[3])) + RangeArea(QuadInter(range_orig, TileDirs[4]))
         = RangeArea(range_orig)

\* C20: every region that construction subdivides, in a buffer it accepts,
\* is split into four pairwise disjoint pieces that cover it.
C20_ExactSubdivision ==
    \A sp \in Loaded :
        sp.mesh # Panic =>
            \A r \in Subdivided(RectRange(0, 0, sp.buf.w, sp.buf.h)) : QuadsPartition(r)

\* the alpha byte and the collision bits of every listed pixel agree on
\* whether the pixel is occupied
AlphaAgrees(buf) == \A p \in DOMAIN buf.px : (buf.px[p] = 0) <=> (collision_bits(buf.px[p]) = 0)

\* C21, for buffers of at most one tile (the region is the whole buffer) on
\* whose pixels both readings of the alpha byte agree: the bits of the leaf
\* are exactly the occupied pixels, at their own column and row, and the
\* bounding box is their tight box.
C21_LeafPixelToBit ==
    \A sp \in Loaded :
        (/\ sp.buf.w <= TILE_SIZE /\ sp.buf.h <= TILE_SIZE
         /\ AlphaAgrees(sp.buf)
         /\ Occupied(sp.buf) # {}) =>
            /\ sp.mesh.kind = "Leaf"
            /\ LeafBits(sp.mesh) = Occupied(sp.buf)
            /\ sp.mesh.bbox = TightBox(Occupied(sp.buf))

\* the world pixels of a rectangle
Cells(r) == {<<x, y>> : x \in r.x..(r.x + r.w - 1), y \in r.y..(r.y + r.h - 1)}

\* the intersection of the two leaves' bounding boxes, each moved by its offset
LeafInter == RectIntersection(slide_rect(meshA.bbox, query.oa), slide_rect(meshB.bbox, query.ob))

\* the world pixels of a rectangle at which both leaves have a set bit
BothSet(r) ==
    {p \in Cells(r) : /\ VSub(p, query.oa) \in LeafBits(meshA)
                      /\ VSub(p, query.ob) \in LeafBits(meshB)}

\* C22: a query of two leaves returns the whole intersection of their moved
\* bounding boxes if some pixel of that intersection has a set bit in both
\* leaves, and nothing otherwise.
C22_LeafAgainstLeaf ==
    (Queried /\ Kinds = <<"Leaf", "Leaf">>) =>
        query.res = (IF LeafInter # None /\ BothSet(LeafInter) # {} THEN LeafInter ELSE None)

\* a query of C22's case: two leaves collide and the returned rectangle has
\* pixels at which not both leaves have a set bit
C22_Witness ==
    /\ Queried
    /\ Kinds = <<"Leaf", "Leaf">>
    /\ query.res # None
    /\ BothSet(query.res) # Cells(query.res)

\* a query of a leaf against a node, in either argument order
LeafNodeQuery == Queried /\ Kinds \in {<<"Leaf", "Node">>, <<"Node", "Leaf">>}

\* the leaf and the node of such a query, each with its offset
QLeaf == IF meshA.kind = "Leaf" THEN meshA ELSE meshB
QLeafOff == IF meshA.kind = "Leaf" THEN query.oa ELSE query.ob
QNode == IF meshA.kind = "Leaf" THEN meshB ELSE meshA
QNodeOff == IF meshA.kind = "Leaf" THEN query.ob ELSE query.oa

\* what the i-th child of the node yields by itself when the leaf is tried
\* against it at the child's offset
ChildAlone(i) ==
    LET child == QNode.inner[i].tree
        off == VAdd(QNodeOff, VMul(to_vec(QNode.inner[i].dir), QNode.scale * (TILE_SIZE \div 2)))
    IN  IF ~RectIntersects(slide_rect(QLeaf.bbox, QLeafOff), slide_rect(child.bbox, off))
        THEN Outcome(None, <<>>)
        ELSE collide(QLeaf, child, QLeafOff, off)

\* the children that yield a hit by themselves
Hitting == {i \in 1..Len(QNode.inner) : ChildAlone(i).res # None}

RECURSIVE ScansUpTo(_)
\* the row scans of the children 1..i, in stored order
ScansUpTo(i) == IF i = 0 THEN <<>> ELSE ScansUpTo(i - 1) \o ChildAlone(i).scans

\* the position of a direction in TileDir::variants()
DirIndex(dir) == CHOOSE k \in 1..Len(TileDirs) : TileDirs[k] = dir

\* C23: a query of a leaf against a node whose moved boxes intersect tries
\* the children in stored order, which is the order LeftUp, RightUp,
\* RightDown, LeftDown; it returns what the first child that yields a hit
\* yields, reads no row of a later child, and the rectangle is the
\* intersection of the leaf's moved box with the moved box of the
\* descendant leaf that was scanned last.
C23_FirstHitOverChildren ==
    (/\ LeafNodeQuery
     /\ RectIntersects(slide_rect(QLeaf.bbox, QLeafOff), slide_rect(QNode.bbox, QNodeOff))) =>
        LET first == SetMin(Hitting, Len(QNode.inner))
        IN  /\ \A i, j \in 1..Len(QNode.inner) :
                   i < j => DirIndex(QNode.inner[i].dir) < DirIndex(QNode.inner[j].dir)
            /\ query.res = (IF Hitting = {} THEN None ELSE ChildAlone(first).res)
            /\ query.scans = ScansUpTo(first)
            /\ query.res # None =>
                   LET last == query.scans[Len(query.scans)]
                   IN  /\ last.s = slide_rect(QLeaf.bbox, QLeafOff)
                       /\ query.res = RectIntersection(last.s, last.o)

\* a query of C23's case: the first child yields a hit and a later child
\* would yield one too
C23_Witness ==
    /\ LeafNodeQuery
    /\ query.res # None
    /\ Cardinality(Hitting) >= 2

\* the box of the i-th child of a node, moved by the child's quadrant offset
ChildBox(node, i) ==
    slide_rect(node.inner[i].tree.bbox, QuadTranslation(node.inner[i].dir, node.scale))

\* the smallest rectangle that contains every rectangle of a non-empty set
Enclosing(boxes) ==
    LET ulx == SetMin({b.x : b \in boxes}, (CHOOSE b \in boxes : TRUE).x)
        uly == SetMin({b.y : b \in boxes}, (CHOOSE b \in boxes : TRUE).y)
        lrx == SetMax({b.x + b.w : b \in boxes}, ulx)
        lry == SetMax({b.y + b.h : b \in boxes}, uly)
    IN  Rect(ulx, uly, lrx - ulx, lry - uly)

RECURSIVE NodesWellBoxed(_)
\* every node of the tree has one to four children of pairwise distinct
\* directions and the union of their moved boxes as its box
NodesWellBoxed(tree) ==
    tree.kind = "Node" =>
        /\ Len(tree.inner) \in 1..4
        /\ \A i, j \in 1..Len(tree.inner) : i # j => tree.inner[i].dir # tree.inner[j].dir
        /\ tree.bbox = Enclosing({ChildBox(tree, i) : i \in 1..Len(tree.inner)})
        /\ \A i \in 1..Len(tree.inner) : RectInside(ChildBox(tree, i), tree.bbox)
        /\ \A i \in 1..Len(tree.inner) : NodesWellBoxed(tree.inner[i].tree)

\* C24: in every tree that is built, the bounding box of every node is the
\* union of its children's bounding boxes, each moved by its quadrant
\* offset, and contains each of them; every node has between one and four
\* children, of pairwise distinct directions.
C24_NodeBoxIsUnion ==
    \A sp \in Loaded : IsTree(sp.mesh) => NodesWellBoxed(sp.mesh)

\* a tree of C24's case: a node with two children, neither in the LeftUp
\* quadrant, whose box is larger than either child's moved box
C24_Witness ==
    \E sp \in Loaded :
        /\ sp.mesh.kind = "Node"
        /\ Len(sp.mesh.inner) = 2
        /\ \A i \in 1..2 : /\ sp.mesh.inner[i].dir # "LeftUp"
                           /\ ChildBox(sp.mesh, i) # sp.mesh.bbox

\* the longer side of a region
MaxLen(r) == Max(xlen(r), ylen(r))

\* the regions the children of the region r are built from; none when r is
\* built as a leaf
Pieces(r) ==
    IF get_scale(MaxLen(r)) < 2 THEN {}
    ELSE {QuadInter(r, TileDirs[d]) : d \in 1..4} \ {None}

\* every child of the region r is built from a region whose longer side is
\* at most one quadrant, and so shorter than the longer side of r
Shrinks(r) ==
    \A c \in Pieces(r) :
        /\ MaxLen(c) <= (get_scale(MaxLen(r)) \div 2) * TILE_SIZE
        /\ MaxLen(c) < MaxLen(r)

RECURSIVE NodeLevels(_)
\* the number of node levels above the deepest leaf
NodeLevels(tree) ==
    IF tree.kind = "Leaf" THEN 0
    ELSE 1 + SetMax({NodeLevels(tree.inner[i].tree) : i \in 1..Len(tree.inner)}, 0)

RECURSIVE NumLeaves(_)
NumLeaves(tree) ==
    IF tree.kind = "Leaf" THEN 1
    ELSE LET n[i \in 0..Len(tree.inner)] ==
                 IF i = 0 THEN 0 ELSE n[i - 1] + NumLeaves(tree.inner[i].tree)
         IN  n[Len(tree.inner)]

\* C25: for every buffer construction accepts, the children of a region are
\* built from regions with a shorter longer side, down to regions of one
\* tile after at most two subdivisions; a tree that is built has at most
\* five node levels above its leaves; and a query of two built trees reads
\* at most one leaf pair for every pair of leaves of the two trees.
C25_Termination ==
    \A sp \in Loaded :
        sp.mesh # Panic =>
            LET whole == RectRange(0, 0, sp.buf.w, sp.buf.h)
            IN  /\ Shrinks(whole)
                /\ \A c \in Pieces(whole) :
                       /\ Shrinks(c)
                       /\ \A g \in Pieces(c) : Pieces(g) = {}
                /\ IsTree(sp.mesh) =>
                       /\ NodeLevels(sp.mesh) <= 5
                       /\ \A other \in Loaded, oa \in Origins :
                              IsTree(other.mesh) =>
                                  Len(collide(sp.mesh, other.mesh, oa, <<0, 0>>).scans)
                                      <= NumLeaves(sp.mesh) * NumLeaves(other.mesh)

\* a tree of C25's case: a buffer of the largest scale, built into two node
\* levels, whose query against itself reads a leaf pair
C25_Witness ==
    \E sp \in Loaded :
        /\ MaxLen(RectRange(0, 0, sp.buf.w, sp.buf.h)) > 8 * TILE_SIZE
        /\ IsTree(sp.mesh)
        /\ NodeLevels(sp.mesh) = 2
        /\ Len(collide(sp.mesh, sp.mesh, <<0, 0>>, <<0, 0>>).scans) >= 1

\* the rows a scan read of a leaf, given the leaf's tile range
RowsRead(scan, range) == {range.ys + i : i \in 0..(scan.rows - 1)}

\* the row indices, the row shift and the length of the column mask that a
\* scan used for one leaf are those of a 16-entry array of 16-bit rows
RangeSafe(scan, range) ==
    /\ \A y \in RowsRead(scan, range) : y \in 0..(TILE_SIZE - 1)
    /\ range.xs \in 0..(TILE_SIZE - 1)
    /\ (range.xe - range.xs) \in 1..TILE_SIZE

\* C26: no query aborts, and in every row scan of a query, for both leaves,
\* every row index is in 0..15, the row shift is in 0..15 and the length of
\* the column mask is in 1..16; construction of a leaf from a buffer of at
\* most one tile sets bits only at rows and columns 0..15.
C26_IndexesInBounds ==
    /\ Queried =>
           /\ query.res # Panic
           /\ \A i \in 1..Len(query.scans) :
                  /\ RangeSafe(query.scans[i], query.scans[i].range_s)
                  /\ RangeSafe(query.scans[i], query.scans[i].range_o)
    /\ \A sp \in Loaded :
           (sp.buf.w <= TILE_SIZE /\ sp.buf.h <= TILE_SIZE) =>
               \A k \in 0..(ZipLen(RectRange(0, 0, sp.buf.w, sp.buf.h)) - 1) :
                   /\ TilePos(k)[1] \in 0..(TILE_SIZE - 1)
                   /\ TilePos(k)[2] \in 0..(TILE_SIZE - 1)

\* a query of C26's case: a scan whose ranges start past the first column
\* and the first row of both leaves' tiles and read more than one row, at
\* an origin left of and below the world origin
C26_Witness ==
    /\ Queried
    /\ query.oa[1] < 0
    /\ \E i \in 1..Len(query.scans) :
           /\ query.scans[i].rows > 1
           /\ query.scans[i].range_s.xs > 0 /\ query.scans[i].range_s.ys > 0
           /\ query.scans[i].range_o.xs > 0 /\ query.scans[i].range_o.ys > 0

\* the pending schedules whose start is at most count, and the others
DueAt(count) == {h \in heap : start(h.typ) <= count}
NotDueAt(count) == heap \ DueAt(count)

\* how many times a sequence of actions holds the action a
Times(res, a) == Cardinality({j \in DOMAIN res : res[j] = a})

\* what a call pop(count) on the pending schedules returns and leaves
PopOnce(count) ==
    LET out == pop(heap, count)
    IN  /\ \A h \in DueAt(count) : Times(out.res, h.action) = 1
        /\ \A h \in NotDueAt(count) : Times(out.res, h.action) = 0
        /\ Len(out.res) = Cardinality(DueAt(count))
        /\ NotDueAt(count) \subseteq out.inner
        /\ \A h \in out.inner \ NotDueAt(count) :
               /\ \E d \in DueAt(count) : d.action = h.action
               /\ start(h.typ) >= 0

\* C27: a call pop(count), at any count, earlier than the clock or not,
\* returns the action of every pending schedule whose start is at most count
\* once, and of no other; it leaves the schedules whose start is after count
\* pending as they are; what it queues again it does not return in the same
\* call, and no start it computes falls below zero.
C27_SinglePop ==
    \A count \in 0..MaxClock : PopOnce(count)

\* a state of C27's case: after a pop, a RepeatedOnce schedule with a period
\* of zero is pending and due at the clock, another schedule is pending and
\* not due
C27_Witness ==
    /\ clock >= 1
    /\ \E h \in DueAt(clock) : h.typ.tag = "RepeatedOnce" /\ h.typ.span = 0
    /\ NotDueAt(clock) # {}

\* the actions pushed with a repeating schedule
PushedRepeating ==
    {a \in DOMAIN pushes : pushes[a].typ.tag \in {"RepeatedOnce", "RepeatedSpan"}}

\* C28: an action pushed with a RepeatedOnce or a RepeatedSpan schedule, of
\* any period and any length of run, is pending after every pop, and some
\* later pop would return it.
C28_RepeatedStaysPending ==
    \A a \in PushedRepeating :
        /\ \E h \in heap : h.action = a
        /\ \E count \in clock..(clock + MaxStart + MaxSpan) : Times(pop(heap, count).res, a) = 1

\* the calls made so far that are Release events of a button, or Get
IsRelease(j) == events[j].op = "Release"
IsGet(j) == events[j].op = "Get"

\* the last Release of the button b among the first k calls, 0 for none
LastRelease(b, k) == SetMax({j \in 1..k : IsRelease(j) /\ events[j].b = b}, 0)

\* the Press events of b among the first k calls since its last Release
PressesHeld(b, k) ==
    {j \in (LastRelease(b, k) + 1)..k : events[j].op = "Press" /\ events[j].b = b}

\* b is held after the first k calls, and the clock of the Press that began it
HeldAfter(b, k) == PressesHeld(b, k) # {}
FirstPress(b, k) == events[SetMin(PressesHeld(b, k), k)].at

\* the last call was get_message: message is what it returned
Fresh == Len(events) >= 1 /\ IsGet(Len(events))

\* the get_message before the last call, 0 for none
PrevGet == SetMax({j \in 1..(Len(events) - 1) : IsGet(j)}, 0)

\* the Release events since the get_message before the last call
NewReleases == {j \in (PrevGet + 1)..(Len(events) - 1) : IsRelease(j)}

\* no button was released while it was not held
OnlyHeldReleased ==
    \A j \in 1..Len(events) : IsRelease(j) => HeldAfter(events[j].b, j - 1)

\* the release the j-th call, a Release of a held button, is to report
ReleaseOf(j) == <<events[j].b, SpanNew(FirstPress(events[j].b, j - 1), events[j].at)>>

RECURSIVE ReleasesFrom(_, _)
\* the releases of the calls j..k, in the order of the calls
ReleasesFrom(j, k) ==
    IF j > k THEN << >>
    ELSE (IF IsRelease(j) THEN <<ReleaseOf(j)>> ELSE << >>) \o ReleasesFrom(j + 1, k)

\* the buttons held at the last call, each with the clock of its first Press
HeldNow ==
    {<<b, FirstPress(b, Len(events))>> : b \in {x \in Buttons : HeldAfter(x, Len(events))}}

U64Le(a, b) == IF (a < 0) = (b < 0) THEN a <= b ELSE b < 0

\* the last call was a Release of a button that was not held
UnheldReleased ==
    /\ Len(events) >= 1
    /\ IsRelease(Len(events))
    /\ ~HeldAfter(events[Len(events)].b, Len(events) - 1)

\* C30: a Release of a button that is not held, at any clock, does not
\* abort, and records for the button a release whose span ends at the
\* clock of the call and starts no later than it ends.
C30_UnheldRelease ==
    UnheldReleased =>
        /\ handler # Panic
        /\ LET last == handler.released_buttons[Len(handler.released_buttons)]
           IN  /\ last[1] = events[Len(events)].b
               /\ last[2].end = events[Len(events)].at
               /\ U64Le(last[2].start, last[2].end)

====
